---- MODULE Spec2Model ----
(***************************************************************************)
(* A model of scripts/validate.mjs, the strategy-file validator.           *)
(*                                                                         *)
(* Strings that the program takes apart (file names, ids, stems) are       *)
(* sequences of one-character strings.  A JSON value is a record whose     *)
(* field t is its kind ("undefined" stands for an absent key).             *)
(***************************************************************************)
EXTENDS Integers, Sequences, FiniteSets, TLC

(***************************************************************************)
(* Bounds of the checked inputs.                                           *)
(***************************************************************************)
MaxExamples == 2

(***************************************************************************)
(* String helpers: the JavaScript and node:path primitives the script uses *)
(***************************************************************************)
DotJson == <<".", "j", "s", "o", "n">>
DotTxt == <<".", "t", "x", "t">>

\* UTF-16 code unit of a character (the order Array.prototype.sort uses).
CharCode(c) ==
  CASE c = "-" -> 45
    [] c = "." -> 46
    [] c = "0" -> 48
    [] c = "A" -> 65
    [] c = "_" -> 95
    [] c = "a" -> 97
    [] c = "b" -> 98
    [] c = "j" -> 106
    [] c = "n" -> 110
    [] c = "o" -> 111
    [] c = "s" -> 115
    [] c = "t" -> 116
    [] c = "x" -> 120

\* String.prototype.endsWith
EndsWith(s, suffix) ==
  /\ Len(s) >= Len(suffix)
  /\ SubSeq(s, Len(s) - Len(suffix) + 1, Len(s)) = suffix

\* The character class [a-z0-9] of FILENAME_RE.
IsLowerAlnum(c) ==
  \/ (CharCode(c) >= 48 /\ CharCode(c) <= 57)
  \/ (CharCode(c) >= 97 /\ CharCode(c) <= 122)

\* The automaton of [a-z0-9]+(-[a-z0-9]+)* run over s from position k;
\* q is "start" (nothing read), "word" (inside a run of [a-z0-9]) or
\* "dash" (just after a hyphen).
RECURSIVE HyphenatedRun(_, _, _)
HyphenatedRun(s, k, q) ==
  IF k > Len(s) THEN q = "word"
  ELSE IF IsLowerAlnum(s[k]) THEN HyphenatedRun(s, k + 1, "word")
  ELSE IF s[k] = "-" /\ q = "word" THEN HyphenatedRun(s, k + 1, "dash")
  ELSE FALSE

\* FILENAME_RE.test(filename)
FILENAME_RE_test(filename) ==
  /\ EndsWith(filename, DotJson)
  /\ HyphenatedRun(SubSeq(filename, 1, Len(filename) - Len(DotJson)), 1, "start")

\* Position of the last "." of s, 0 when there is none.
RECURSIVE LastDot(_, _)
LastDot(s, k) ==
  IF k = 0 THEN 0
  ELSE IF s[k] = "." THEN k
  ELSE LastDot(s, k - 1)

\* path.extname for a name with no directory part: from the last "." to the
\* end; empty when there is no "." or the only one is the first character,
\* and for "..".
extname(p) ==
  LET d == LastDot(p, Len(p))
  IN IF d <= 1 \/ p = <<".", ".">> THEN <<>> ELSE SubSeq(p, d, Len(p))

\* path.basename(p, ext) for a name with no directory part.
basename(p, ext) ==
  IF ext = <<>> THEN p
  ELSE IF ext = p THEN <<>>
  ELSE IF EndsWith(p, ext) THEN SubSeq(p, 1, Len(p) - Len(ext))
  ELSE p

\* a < b in the order of the default Array.prototype.sort comparator
\* (code units, a proper prefix first).
RECURSIVE StrLess(_, _)
StrLess(a, b) ==
  IF b = <<>> THEN FALSE
  ELSE IF a = <<>> THEN TRUE
  ELSE IF CharCode(Head(a)) < CharCode(Head(b)) THEN TRUE
  ELSE IF CharCode(Head(a)) > CharCode(Head(b)) THEN FALSE
  ELSE StrLess(Tail(a), Tail(b))

\* The elements of the set S as a sequence in ascending order.
RECURSIVE SortedSeq(_)
SortedSeq(S) ==
  IF S = {} THEN <<>>
  ELSE LET least == CHOOSE x \in S : \A y \in S \ {x} : StrLess(x, y)
       IN <<least>> \o SortedSeq(S \ {least})

(***************************************************************************)
(* JSON values and diagnostics                                             *)
(***************************************************************************)
VALID_CATEGORIES == <<"general", "pattern", "workflow", "organism">>

knownFields == {"id", "name", "description", "category", "supplement", "examples"}

\* typeof v
TypeOf(v) == IF v.t \in {"null", "array", "object"} THEN "object" ELSE v.t

\* Array.isArray(v)
IsArray(v) == v.t = "array"

\* key in parsed
HasKey(v) == v.t # "undefined"

\* VALID_CATEGORIES.includes(v): strict equality with one of the strings.
IncludesCategory(v) ==
  v.t = "string" /\ \E k \in DOMAIN VALID_CATEGORIES : VALID_CATEGORIES[k] = v.s

\* Whether `${v}` throws: converting an object to a string calls its toString,
\* and an object parsed from JSON that has an own key "toString" holds a
\* value there that cannot be called, so the conversion raises a TypeError.
TemplateThrows(v) == v.t = "object" /\ "toString" \in v.keys

\* One diagnostic message: what it is about, the example index it is tagged
\* with (-1 when none) and the text it quotes.
Msg(m, i, list) == [m |-> m, i |-> i, list |-> list]

NoMsg == Msg("", 0 - 1, <<>>)

\* One console line.
Line(k, file, msg, id, names, nums) ==
  [k |-> k, file |-> file, msg |-> msg, id |-> id, names |-> names, nums |-> nums]

\* The value of the variable id: null, or the string taken from the document.
NullId == [t |-> "null", s |-> <<>>]

(***************************************************************************)
(* printResults                                                            *)
(***************************************************************************)
printResults(errors, warnings) ==
  IF Len(errors) = 0 /\ Len(warnings) = 0
  THEN <<Line("ok", <<>>, NoMsg, <<>>, <<>>, <<>>)>>
  ELSE [k \in 1..Len(errors) |-> Line("FAIL", <<>>, errors[k], <<>>, <<>>, <<>>)]
       \o [k \in 1..Len(warnings) |-> Line("WARN", <<>>, warnings[k], <<>>, <<>>, <<>>)]

(***************************************************************************)
(* validateFile, check by check                                            *)
(***************************************************************************)
\* Filename convention
FilenameErrors(filename) ==
  IF ~FILENAME_RE_test(filename) THEN <<Msg("filename", 0 - 1, filename)>> ELSE <<>>

\* readFile or JSON.parse throws
ParseFails(doc) == doc.top \in {"unreadable", "malformed"}

\* NotAnObject without the Array.isArray test.
NotAnObject_NoArrayTest(doc) ==
  LET parsed == [t |-> doc.top]
  IN parsed.t = "null" \/ TypeOf(parsed) # "object"

\* parsed === null || typeof parsed !== 'object' || Array.isArray(parsed)
NotAnObject(doc) ==
  LET parsed == [t |-> doc.top]
  IN parsed.t = "null" \/ TypeOf(parsed) # "object" \/ IsArray(parsed)

\* typeof parsed.id !== 'string' || !parsed.id
IdInvalid(doc) == TypeOf(doc.id) # "string" \/ doc.id.s = <<>>

IdErrors(doc) == IF IdInvalid(doc) THEN <<Msg("id", 0 - 1, <<>>)>> ELSE <<>>

ExtractedId(doc) == IF IdInvalid(doc) THEN NullId ELSE [t |-> "string", s |-> doc.id.s]

IdWarnings(doc, filename) ==
  LET stem == basename(filename, extname(filename))
  IN IF ~IdInvalid(doc) /\ doc.id.s # stem
     THEN <<Msg("id-mismatch", 0 - 1, doc.id.s)>>
     ELSE <<>>

NameErrors(doc) ==
  IF TypeOf(doc.name) # "string" \/ doc.name.s = <<>>
  THEN <<Msg("name", 0 - 1, <<>>)>>
  ELSE <<>>

SupplementErrors(doc) ==
  IF TypeOf(doc.supplement) # "string" THEN <<Msg("supplement", 0 - 1, <<>>)>> ELSE <<>>

DescriptionWarnings(doc) ==
  IF ~HasKey(doc.description) THEN <<Msg("description-missing", 0 - 1, <<>>)>> ELSE <<>>

DescriptionErrors(doc) ==
  IF HasKey(doc.description) /\ TypeOf(doc.description) # "string"
  THEN <<Msg("description", 0 - 1, <<>>)>>
  ELSE <<>>

CategoryWarnings(doc) ==
  IF ~HasKey(doc.category) THEN <<Msg("category-missing", 0 - 1, <<>>)>> ELSE <<>>

\* The category branch that builds the error message.
CategoryRejected(doc) == HasKey(doc.category) /\ ~IncludesCategory(doc.category)

\* Building the message evaluates `${parsed.category}` before errors.push.
CategoryThrows(doc) == CategoryRejected(doc) /\ TemplateThrows(doc.category)

CategoryErrors(doc) ==
  IF CategoryRejected(doc) THEN <<Msg("category", 0 - 1, VALID_CATEGORIES)>> ELSE <<>>

\* The checks of one element of examples; i is its zero-based index.
ExampleErrors(ex, i) ==
  IF ex.t = "null" \/ TypeOf(ex) # "object" \/ IsArray(ex)
  THEN <<Msg("example-shape", i, <<>>)>>
  ELSE (IF ex.scenario # "string" THEN <<Msg("example-scenario", i, <<>>)>> ELSE <<>>)
       \o (IF ex.commands # "string" THEN <<Msg("example-commands", i, <<>>)>> ELSE <<>>)

\* The loop over parsed.examples from index i (zero-based) on.
RECURSIVE ExamplesLoop(_, _)
ExamplesLoop(a, i) ==
  IF i >= Len(a) THEN <<>>
  ELSE ExampleErrors(a[i + 1], i) \o ExamplesLoop(a, i + 1)

ExamplesWarnings(doc) ==
  IF ~HasKey(doc.examples) THEN <<Msg("examples-missing", 0 - 1, <<>>)>> ELSE <<>>

ExamplesErrors(doc) ==
  IF ~HasKey(doc.examples) THEN <<>>
  ELSE IF ~IsArray(doc.examples) THEN <<Msg("examples", 0 - 1, <<>>)>>
  ELSE ExamplesLoop(doc.examples.a, 0)

\* One warning per key of the document outside knownFields, in key order.
\* Object.keys(parsed): the known keys the document has, then its other keys.
ObjectKeys(doc) ==
  (IF HasKey(doc.id) THEN <<"id">> ELSE <<>>)
  \o (IF HasKey(doc.name) THEN <<"name">> ELSE <<>>)
  \o (IF HasKey(doc.description) THEN <<"description">> ELSE <<>>)
  \o (IF HasKey(doc.category) THEN <<"category">> ELSE <<>>)
  \o (IF HasKey(doc.supplement) THEN <<"supplement">> ELSE <<>>)
  \o (IF HasKey(doc.examples) THEN <<"examples">> ELSE <<>>)
  \o doc.extra

RECURSIVE UnknownWarnings(_)
UnknownWarnings(keys) ==
  IF keys = <<>> THEN <<>>
  ELSE (IF Head(keys) \notin knownFields
        THEN <<Msg("unknown-field", 0 - 1, <<Head(keys)>>)>>
        ELSE <<>>)
       \o UnknownWarnings(Tail(keys))

\* What one call of validateFile does: how it ends ("return" or "throw"),
\* the lines it prints, and the value it returns.
validateFile(filename, doc) ==
  LET header == <<Line("header", filename, NoMsg, <<>>, <<>>, <<>>)>>
      e1 == FilenameErrors(filename)
  IN IF ParseFails(doc)
     THEN LET errors == e1 \o <<Msg("invalid-json", 0 - 1, <<>>)>>
          IN [outcome |-> "return", errors |-> errors, warnings |-> <<>>,
              id |-> NullId, printed |-> header \o printResults(errors, <<>>)]
     ELSE IF NotAnObject(doc)
     THEN LET errors == e1 \o <<Msg("top-level", 0 - 1, <<>>)>>
          IN [outcome |-> "return", errors |-> errors, warnings |-> <<>>,
              id |-> NullId, printed |-> header \o printResults(errors, <<>>)]
     ELSE LET e2 == e1 \o IdErrors(doc) \o NameErrors(doc) \o SupplementErrors(doc)
                       \o DescriptionErrors(doc)
              w2 == IdWarnings(doc, filename) \o DescriptionWarnings(doc)
                       \o CategoryWarnings(doc)
          IN IF CategoryThrows(doc)
             THEN [outcome |-> "throw", errors |-> e2, warnings |-> w2,
                   id |-> ExtractedId(doc), printed |-> header]
             ELSE LET errors == e2 \o CategoryErrors(doc) \o ExamplesErrors(doc)
                      warnings == w2 \o ExamplesWarnings(doc)
                                     \o UnknownWarnings(ObjectKeys(doc))
                  IN [outcome |-> "return", errors |-> errors, warnings |-> warnings,
                      id |-> ExtractedId(doc),
                      printed |-> header \o printResults(errors, warnings)]

(***************************************************************************)
(* The inputs: directory entries and file contents                         *)
(***************************************************************************)
Absent == [t |-> "undefined", s |-> <<>>]
Num == [t |-> "number", s |-> <<>>]
Str(s) == [t |-> "string", s |-> s]

CatAbsent == [t |-> "undefined", s |-> "", keys |-> {}]
CatNull == [t |-> "null", s |-> "", keys |-> {}]
CatStr(c) == [t |-> "string", s |-> c, keys |-> {}]
CatObj(keys) == [t |-> "object", s |-> "", keys |-> keys]

ExAbsent == [t |-> "undefined", a |-> <<>>]
ExNum == [t |-> "number", a |-> <<>>]
ExArr(a) == [t |-> "array", a |-> a]

\* Elements of examples: null, or an object whose scenario and commands are
\* strings or missing.
ElemNull == [t |-> "null", scenario |-> "undefined", commands |-> "undefined"]
ElemObj(sc, co) == [t |-> "object", scenario |-> sc, commands |-> co]
ElemOk == ElemObj("string", "string")
Elems == {ElemNull, ElemOk, ElemObj("string", "undefined"), ElemObj("undefined", "undefined")}

\* All sequences over S of length at most n.
RECURSIVE SeqsUpTo(_, _)
SeqsUpTo(S, n) ==
  IF n = 0 THEN {<<>>}
  ELSE LET shorter == SeqsUpTo(S, n - 1)
       IN shorter \cup {Append(q, x) : q \in {r \in shorter : Len(r) = n - 1}, x \in S}

\* A file that cannot be read or parsed, or whose top-level value is no object.
Blank(top) ==
  [top |-> top, id |-> Absent, name |-> Absent, supplement |-> Absent,
   description |-> Absent, category |-> CatAbsent, examples |-> ExAbsent,
   extra |-> <<>>]

NonObjectDocs ==
  {Blank(top) : top \in {"unreadable", "malformed", "null", "number", "string", "array"}}

ObjectDocs ==
  [top : {"object"},
   id : {Absent, Str(<<>>), Str(<<"a">>), Str(<<"A">>)},
   name : {Absent, Str(<<>>), Str(<<"n">>)},
   supplement : {Absent, Str(<<>>)},
   description : {Absent, Num, Str(<<"d">>)},
   category : {CatAbsent, CatNull, CatStr("other"), CatObj({"toString"}),
               CatStr("general"), CatStr("organism")},
   examples : {ExAbsent, ExNum} \cup {ExArr(a) : a \in SeqsUpTo(Elems, MaxExamples)},
   extra : {<<>>, <<"author">>}]

Documents == NonObjectDocs \cup ObjectDocs

\* A fully populated, valid document with the given id.
Full(id) ==
  [top |-> "object", id |-> Str(id), name |-> Str(<<"n">>), supplement |-> Str(<<>>),
   description |-> Str(<<"d">>), category |-> CatStr("pattern"),
   examples |-> ExArr(<<ElemOk>>), extra |-> <<>>]

\* The documents the files of a whole directory are drawn from.
RunDocs ==
  { Full(<<"a">>),
    Full(<<"A">>),
    Blank("malformed"),
    Blank("array"),
    [Full(<<"a">>) EXCEPT !.id = Absent],
    [Full(<<"a">>) EXCEPT !.name = Absent],
    [Full(<<"a">>) EXCEPT !.description = Absent],
    [Full(<<"A">>) EXCEPT !.category = CatStr("other")],
    [Full(<<"a">>) EXCEPT !.category = CatObj({"toString"})],
    [Full(<<"a">>) EXCEPT !.id = Absent, !.category = CatObj({"toString"})],
    [Full(<<"a">>) EXCEPT !.examples = ExArr(<<ElemOk, ElemObj("string", "undefined")>>)],
    [Full(<<"A">>) EXCEPT !.extra = <<"author">>] }

\* The names a directory entry can have.
EntryNames ==
  { <<"a">> \o DotJson, <<"a", "-", "b">> \o DotJson, <<"A">> \o DotJson,
    <<"a">> \o DotTxt }

\* The names of the one-file directories: one that keeps the naming
\* convention and one that breaks it.
OneFileNames == {<<"a">> \o DotJson, <<"A">> \o DotJson}

\* f.endsWith('.json')
IsJson(f) == EndsWith(f, DotJson)

(***************************************************************************)
(* The run: main                                                           *)
(***************************************************************************)
VARIABLES
  pc,            \* where main is: "start", "loop", "summary", "exited"
  dir,           \* the entries readdir returns
  disk,          \* the content of each .json entry
  files,         \* const files
  done,          \* how many elements of files the for loop has taken
  totalErrors, totalWarnings, passedFiles,
  idMap,         \* the Map, as its entries [id, filenames] in insertion order
  calls,         \* the calls of validateFile so far: argument, content, result
  console,       \* the lines written so far
  exitCode       \* the exit status, -1 while the process runs

vars == <<pc, dir, disk, files, done, totalErrors, totalWarnings, passedFiles,
          idMap, calls, console, exitCode>>

\* idMap.has(id)
MapHas(m, id) == \E k \in DOMAIN m : m[k].id = id

\* MapPush with idMap.set(id, []) done on every call, not only the first.
MapPush_AlwaysSet(m, id, file) ==
  IF MapHas(m, id)
  THEN [k \in DOMAIN m |->
          IF m[k].id = id THEN [m[k] EXCEPT !.filenames = <<file>>] ELSE m[k]]
  ELSE Append(m, [id |-> id, filenames |-> <<file>>])

\* if (!idMap.has(id)) idMap.set(id, []); idMap.get(id).push(file)
MapPush(m, id, file) ==
  IF MapHas(m, id)
  THEN [k \in DOMAIN m |->
          IF m[k].id = id THEN [m[k] EXCEPT !.filenames = Append(@, file)] ELSE m[k]]
  ELSE Append(m, [id |-> id, filenames |-> <<file>>])

\* Passes with the test errors <= 1.
Passes_AtMostOne(errorCount) == errorCount <= 1

\* errors === 0
Passes(errorCount) == errorCount = 0

\* if (id): null and the empty string are falsy.
Truthy(id) == id.t = "string" /\ id.s # <<>>

InitCommon ==
  /\ pc = "start"
  /\ files = <<>>
  /\ done = 0
  /\ totalErrors = 0
  /\ totalWarnings = 0
  /\ passedFiles = 0
  /\ idMap = <<>>
  /\ calls = <<>>
  /\ console = <<>>
  /\ exitCode = 0 - 1

\* Any directory over EntryNames, its .json files holding documents of RunDocs.
Init ==
  /\ dir \in SUBSET EntryNames
  /\ disk \in [{f \in dir : IsJson(f)} -> RunDocs]
  /\ InitCommon

\* A directory of one .json file holding any document of Documents.
InitOne ==
  /\ \E f \in OneFileNames : dir = {f}
  /\ disk \in [dir -> Documents]
  /\ InitCommon

\* Discover without the exit on an empty list.
Discover_NoExit ==
  /\ pc = "start"
  /\ files' = SortedSeq({f \in dir : IsJson(f)})
  /\ pc' = "loop"
  /\ UNCHANGED <<dir, disk, done, totalErrors, totalWarnings, passedFiles, idMap, calls,
                 console, exitCode>>

\* readdir, filter, sort; the exit when no file is found.
Discover ==
  /\ pc = "start"
  /\ LET found == SortedSeq({f \in dir : IsJson(f)})
     IN /\ files' = found
        /\ IF Len(found) = 0
           THEN /\ console' = Append(console, Line("fatal", <<>>, NoMsg, <<>>, <<>>, <<>>))
                /\ exitCode' = 1
                /\ pc' = "exited"
           ELSE /\ pc' = "loop"
                /\ UNCHANGED <<console, exitCode>>
  /\ UNCHANGED <<dir, disk, done, totalErrors, totalWarnings, passedFiles, idMap, calls>>

\* One iteration of the for loop over files.  When validateFile throws, the
\* rejection leaves main, and main() has no handler for it: Node ends the
\* process on the unhandled rejection with status 1, and the rest of main
\* never runs.
ValidateNext ==
  /\ pc = "loop"
  /\ done < Len(files)
  /\ \E file \in {files[done + 1]} : \E r \in {validateFile(file, disk[file])} :
        /\ calls' = Append(calls, [file |-> file, doc |-> disk[file], outcome |-> r.outcome,
                                   errors |-> r.errors, warnings |-> r.warnings,
                                   id |-> r.id])
        /\ console' = console \o r.printed
        /\ done' = done + 1
        /\ IF r.outcome = "throw"
           THEN /\ pc' = "exited"
                /\ exitCode' = 1
                /\ UNCHANGED <<totalErrors, totalWarnings, passedFiles, idMap>>
           ELSE /\ totalErrors' = totalErrors + Len(r.errors)
                /\ totalWarnings' = totalWarnings + Len(r.warnings)
                /\ passedFiles' = IF Passes(Len(r.errors)) THEN passedFiles + 1 ELSE passedFiles
                /\ idMap' = IF Truthy(r.id) THEN MapPush(idMap, r.id.s, file) ELSE idMap
                /\ UNCHANGED <<pc, exitCode>>
  /\ UNCHANGED <<dir, disk, files>>

\* The lines of the loop over idMap from entry k on.
RECURSIVE DuplicateLines(_, _)
DuplicateLines(m, k) ==
  IF k > Len(m) THEN <<>>
  ELSE (IF Len(m[k].filenames) > 1
        THEN <<Line("duplicate", <<>>, NoMsg, m[k].id, m[k].filenames, <<>>)>>
        ELSE <<>>)
       \o DuplicateLines(m, k + 1)

\* Cross-file checks, after the loop.
CrossFileChecks ==
  /\ pc = "loop"
  /\ done = Len(files)
  /\ LET dups == DuplicateLines(idMap, 1)
         duplicates == Len(dups)
     IN /\ console' = console \o <<Line("cross-header", <<>>, NoMsg, <<>>, <<>>, <<>>)>>
                        \o dups
                        \o (IF duplicates = 0
                            THEN <<Line("unique", <<>>, NoMsg, <<>>, <<>>, <<Len(idMap)>>)>>
                            ELSE <<>>)
        /\ totalErrors' = totalErrors + duplicates
  /\ pc' = "summary"
  /\ UNCHANGED <<dir, disk, files, done, totalWarnings, passedFiles, idMap, calls, exitCode>>

\* The summary line and process.exit.
Summary ==
  /\ pc = "summary"
  /\ LET failedFiles == Len(files) - passedFiles
     IN console' = Append(console, Line("summary", <<>>, NoMsg, <<>>, <<>>,
                                        <<passedFiles, failedFiles, totalWarnings>>))
  /\ exitCode' = IF totalErrors > 0 THEN 1 ELSE 0
  /\ pc' = "exited"
  /\ UNCHANGED <<dir, disk, files, done, totalErrors, totalWarnings, passedFiles,
                 idMap, calls>>

Next == Discover \/ ValidateNext \/ CrossFileChecks \/ Summary

\* Runs over whole directories.
Spec == Init /\ [][Next]_vars

\* Runs over one file with any content.
SpecOne == InitOne /\ [][Next]_vars

(***************************************************************************)
(* What a run did, read off the log of validateFile calls                  *)
(***************************************************************************)
Returned(c) == c.outcome = "return"

\* The sum of the error counts the calls c[1..k] returned.
RECURSIVE ErrorsReturned(_, _)
ErrorsReturned(c, k) ==
  IF k = 0 THEN 0
  ELSE ErrorsReturned(c, k - 1) + (IF Returned(c[k]) THEN Len(c[k].errors) ELSE 0)

\* The sum of the warning counts the calls c[1..k] returned.
RECURSIVE WarningsReturned(_, _)
WarningsReturned(c, k) ==
  IF k = 0 THEN 0
  ELSE WarningsReturned(c, k - 1) + (IF Returned(c[k]) THEN Len(c[k].warnings) ELSE 0)

\* The identifiers validateFile returned.
IdsSeen == {calls[k].id.s : k \in {j \in DOMAIN calls : Returned(calls[j]) /\ calls[j].id.t = "string"}}

\* The files that returned identifier v, in the order of files.
FilesOf(v) ==
  SelectSeq(files, LAMBDA f : \E k \in DOMAIN calls :
                       /\ calls[k].file = f
                       /\ Returned(calls[k])
                       /\ calls[k].id = [t |-> "string", s |-> v])

DuplicateGroups == {v \in IdsSeen : Len(FilesOf(v)) > 1}

ConsoleLines(kind) == {k \in DOMAIN console : console[k].k = kind}

SomeCallThrew == \E k \in DOMAIN calls : ~Returned(calls[k])

CrossCheckRan == ConsoleLines("cross-header") # {}

SummaryPrinted == ConsoleLines("summary") # {}

(***************************************************************************)
(* C1: over a non-empty set of discovered files the run exits with status  *)
(* 1 exactly when the total error count, the per-file error counts plus    *)
(* the number of duplicate-id groups, is greater than zero, and with       *)
(* status 0 otherwise.                                                     *)
(***************************************************************************)
C1_ExitStatusIffErrors ==
  (pc = "exited" /\ Len(files) > 0) =>
     /\ exitCode \in {0, 1}
     /\ (exitCode = 1) <=>
          (ErrorsReturned(calls, Len(calls)) + Cardinality(DuplicateGroups) > 0)

\* The same statement for the runs in which every validateFile call returned.
C1_WhenEveryCallReturns ==
  (pc = "exited" /\ Len(files) > 0 /\ ~SomeCallThrew) =>
     /\ exitCode \in {0, 1}
     /\ (exitCode = 1) <=>
          (ErrorsReturned(calls, Len(calls)) + Cardinality(DuplicateGroups) > 0)
     /\ totalErrors = ErrorsReturned(calls, Len(calls)) + Cardinality(DuplicateGroups)

(***************************************************************************)
(* C2: the cross-file check emits exactly one duplicate line for every     *)
(* identifier returned for more than one file, listing those files in      *)
(* discovery order, and none for an identifier of one file; the uniqueness *)
(* line, with the number of distinct identifiers, is there exactly when no *)
(* duplicate group is.                                                     *)
(***************************************************************************)
C2_DuplicateLines ==
  CrossCheckRan =>
     /\ \A v \in IdsSeen :
          LET lines == {k \in ConsoleLines("duplicate") : console[k].id = v}
          IN IF Len(FilesOf(v)) > 1
             THEN /\ Cardinality(lines) = 1
                  /\ \A k \in lines : console[k].names = FilesOf(v)
             ELSE lines = {}
     /\ \A k \in ConsoleLines("duplicate") : console[k].id \in IdsSeen
     /\ (ConsoleLines("unique") # {}) <=> (DuplicateGroups = {})
     /\ Cardinality(ConsoleLines("unique")) <= 1
     /\ \A k \in ConsoleLines("unique") : console[k].nums = <<Cardinality(IdsSeen)>>

\* A run with three files: two share an identifier, the third has its own.
C2_Witness ==
  /\ pc = "exited"
  /\ CrossCheckRan
  /\ \E v \in IdsSeen : Len(FilesOf(v)) = 2
  /\ \E v \in IdsSeen : Len(FilesOf(v)) = 1

(***************************************************************************)
(* C5: with at least one discovered file, validateFile is called exactly   *)
(* once for each file, in sorted order, whatever errors earlier files had; *)
(* the cross-file check starts only after the last call, and the run ends. *)
(***************************************************************************)
C5_EveryFileValidatedInOrder ==
  /\ \A k \in DOMAIN calls : k <= Len(files) /\ calls[k].file = files[k]
  /\ \A k \in DOMAIN files : \A j \in DOMAIN files : k < j => StrLess(files[k], files[j])
  /\ (pc = "exited" /\ Len(files) > 0) => Len(calls) = Len(files)
  /\ CrossCheckRan =>
        /\ Len(calls) = Len(files)
        /\ \A h \in ConsoleLines("header") : \A c \in ConsoleLines("cross-header") : h < c

\* The same statement for the runs in which every validateFile call returned.
C5_WhenEveryCallReturns ==
  /\ \A k \in DOMAIN calls : k <= Len(files) /\ calls[k].file = files[k]
  /\ \A k \in DOMAIN files : \A j \in DOMAIN files : k < j => StrLess(files[k], files[j])
  /\ (pc = "exited" /\ Len(files) > 0 /\ ~SomeCallThrew) => Len(calls) = Len(files)
  /\ CrossCheckRan =>
        /\ Len(calls) = Len(files)
        /\ \A h \in ConsoleLines("header") : \A c \in ConsoleLines("cross-header") : h < c

(***************************************************************************)
(* C6: when no entry of the directory ends with .json, the run ends with   *)
(* status 1 after one top-level error line, without any validateFile call, *)
(* cross-file check or summary.                                            *)
(***************************************************************************)
C6_NoFilesIsFatal ==
  ({f \in dir : IsJson(f)} = {} /\ pc # "start") =>
     /\ pc = "exited"
     /\ exitCode = 1
     /\ calls = <<>>
     /\ Len(console) = 1
     /\ console[1].k = "fatal"

\* A directory holding only an entry that is no .json file, after the exit.
C6_Witness ==
  /\ dir # {}
  /\ {f \in dir : IsJson(f)} = {}
  /\ pc = "exited"
  /\ exitCode = 1

(***************************************************************************)
(* C7: the summary's passed count is the number of files whose validation  *)
(* returned zero errors, its failed count the number of files minus that,  *)
(* its warning total the sum of the files' warning counts; the advisory    *)
(* findings are warnings, never errors, so they fail no file.              *)
(***************************************************************************)
AdvisoryKinds ==
  {"id-mismatch", "description-missing", "category-missing", "examples-missing",
   "unknown-field"}

C7_SummaryCounts ==
  /\ SummaryPrinted =>
       LET passed == Cardinality({k \in DOMAIN calls : Len(calls[k].errors) = 0})
       IN \A k \in ConsoleLines("summary") :
             console[k].nums = <<passed, Len(files) - passed,
                                 WarningsReturned(calls, Len(calls))>>
  /\ \A k \in DOMAIN calls :
       /\ \A e \in DOMAIN calls[k].errors : calls[k].errors[e].m \notin AdvisoryKinds
       /\ \A w \in DOMAIN calls[k].warnings : calls[k].warnings[w].m \in AdvisoryKinds

\* A summary over a file that passed with a warning, a file that failed, and
\* a duplicate identifier.
C7_Witness ==
  /\ SummaryPrinted
  /\ \E k \in DOMAIN calls : Len(calls[k].errors) = 0 /\ Len(calls[k].warnings) > 0
  /\ \E k \in DOMAIN calls : Len(calls[k].errors) > 0
  /\ DuplicateGroups # {}

(***************************************************************************)
(* C3: for a document that cannot be read or parsed, and for one whose     *)
(* top-level value is no object, validateFile returns exactly one error,   *)
(* no warning and a null identifier, and makes no field-level check.       *)
(***************************************************************************)
Structural(doc) == ParseFails(doc) \/ doc.top # "object"

C3_ExactlyOneError ==
  \A k \in DOMAIN calls :
     Structural(calls[k].doc) =>
        /\ Returned(calls[k])
        /\ Len(calls[k].errors) = 1
        /\ Len(calls[k].warnings) = 0
        /\ calls[k].id = NullId

\* C3 as amended: exactly one structural error ("invalid-json" when the
\* content cannot be read or parsed, "top-level" when the value is no
\* object), preceded by the filename error when the name breaks the naming
\* convention, and nothing else; no warning; a null identifier.
C3_OneStructuralError ==
  \A k \in DOMAIN calls :
     Structural(calls[k].doc) =>
        LET c == calls[k]
            named == IF FILENAME_RE_test(c.file) THEN 0 ELSE 1
        IN /\ Returned(c)
           /\ Len(c.errors) = named + 1
           /\ named = 1 => c.errors[1].m = "filename"
           /\ c.errors[named + 1].m =
                 (IF c.doc.top \in {"unreadable", "malformed"} THEN "invalid-json"
                  ELSE "top-level")
           /\ Len(c.warnings) = 0
           /\ c.id = NullId

\* A run has ended in which a document that cannot be parsed, or is no
\* object, was validated under a name that breaks the convention: it
\* returned the filename error and the structural error.
C3_Witness ==
  /\ \E k \in DOMAIN calls :
        /\ Structural(calls[k].doc)
        /\ ~FILENAME_RE_test(calls[k].file)
        /\ Len(calls[k].errors) = 2
  /\ pc = "exited"

(***************************************************************************)
(* C4: for a document without id, validateFile reports exactly one error   *)
(* for the id and returns a null identifier, and the file's name is put    *)
(* under no entry of idMap, so it is in no duplicate line.                 *)
(***************************************************************************)
IdErrorCount(c) == Cardinality({e \in DOMAIN c.errors : c.errors[e].m = "id"})

InIdMap(file) ==
  \E k \in DOMAIN idMap : \E j \in DOMAIN idMap[k].filenames : idMap[k].filenames[j] = file

InDuplicateLine(file) ==
  \E k \in ConsoleLines("duplicate") : \E j \in DOMAIN console[k].names :
     console[k].names[j] = file

MissingId(doc) == doc.top = "object" /\ ~HasKey(doc.id)

C4_MissingIdOneError ==
  \A k \in DOMAIN calls :
     MissingId(calls[k].doc) =>
        /\ Returned(calls[k])
        /\ IdErrorCount(calls[k]) = 1
        /\ \E j \in ConsoleLines("FAIL") : console[j].msg.m = "id"
        /\ calls[k].id = NullId
        /\ ~InIdMap(calls[k].file)
        /\ ~InDuplicateLine(calls[k].file)

\* The same statement for the calls that returned.
C4_WhenTheCallReturns ==
  \A k \in DOMAIN calls :
     (MissingId(calls[k].doc) /\ Returned(calls[k])) =>
        /\ IdErrorCount(calls[k]) = 1
        /\ \E j \in ConsoleLines("FAIL") : console[j].msg.m = "id"
        /\ calls[k].id = NullId
        /\ ~InIdMap(calls[k].file)
        /\ ~InDuplicateLine(calls[k].file)

(***************************************************************************)
(* C8: once the document is an object every field check runs whatever the  *)
(* others found; a category that is present and not one of the four valid  *)
(* values gets exactly one category error, which lists the valid values,   *)
(* and all other findings are those of the same document with a valid      *)
(* category.                                                               *)
(***************************************************************************)
WithoutCategoryError(errors) == SelectSeq(errors, LAMBDA e : e.m # "category")

BadCategory(doc) == doc.top = "object" /\ HasKey(doc.category) /\ ~IncludesCategory(doc.category)

C8_OneCategoryError ==
  \A k \in DOMAIN calls :
     BadCategory(calls[k].doc) =>
        LET c == calls[k]
            valid == validateFile(c.file, [c.doc EXCEPT !.category = CatStr("general")])
        IN /\ Returned(c)
           /\ Cardinality({e \in DOMAIN c.errors : c.errors[e].m = "category"}) = 1
           /\ \A e \in DOMAIN c.errors :
                 c.errors[e].m = "category" => c.errors[e].list = VALID_CATEGORIES
           /\ WithoutCategoryError(c.errors) = valid.errors
           /\ c.warnings = valid.warnings
           /\ c.id = valid.id

\* The same statement for the calls that returned.
C8_WhenTheCallReturns ==
  \A k \in DOMAIN calls :
     (BadCategory(calls[k].doc) /\ Returned(calls[k])) =>
        LET c == calls[k]
            valid == validateFile(c.file, [c.doc EXCEPT !.category = CatStr("general")])
        IN /\ Cardinality({e \in DOMAIN c.errors : c.errors[e].m = "category"}) = 1
           /\ \A e \in DOMAIN c.errors :
                 c.errors[e].m = "category" => c.errors[e].list = VALID_CATEGORIES
           /\ WithoutCategoryError(c.errors) = valid.errors
           /\ c.warnings = valid.warnings
           /\ c.id = valid.id

(***************************************************************************)
(* C9: when examples is an array each element is checked by its zero-based *)
(* position: one error tagged with the index for an element that is no     *)
(* object, else one for each of scenario and commands that is no string;   *)
(* the other elements' findings are unaffected.                            *)
(***************************************************************************)
ExampleKinds == {"example-shape", "example-scenario", "example-commands"}

\* The kinds of error the claim gives the element ex.
ExpectedExampleKinds(ex) ==
  IF ex.t # "object" THEN {"example-shape"}
  ELSE (IF ex.scenario # "string" THEN {"example-scenario"} ELSE {})
       \cup (IF ex.commands # "string" THEN {"example-commands"} ELSE {})

ExamplesIsArray(doc) == doc.top = "object" /\ doc.examples.t = "array"

ExampleFindings(c) ==
  \A i \in 0..(Len(c.doc.examples.a) - 1) :
     LET tagged == {e \in DOMAIN c.errors : c.errors[e].m \in ExampleKinds /\ c.errors[e].i = i}
         expected == ExpectedExampleKinds(c.doc.examples.a[i + 1])
     IN /\ {c.errors[e].m : e \in tagged} = expected
        /\ Cardinality(tagged) = Cardinality(expected)

C9_ExamplesByIndex ==
  \A k \in DOMAIN calls :
     ExamplesIsArray(calls[k].doc) =>
        /\ Returned(calls[k])
        /\ ExampleFindings(calls[k])
        /\ \A e \in DOMAIN calls[k].errors :
              calls[k].errors[e].m \in ExampleKinds =>
                 calls[k].errors[e].i \in 0..(Len(calls[k].doc.examples.a) - 1)

\* The same statement for the calls that returned.
C9_WhenTheCallReturns ==
  \A k \in DOMAIN calls :
     (ExamplesIsArray(calls[k].doc) /\ Returned(calls[k])) =>
        /\ ExampleFindings(calls[k])
        /\ \A e \in DOMAIN calls[k].errors :
              calls[k].errors[e].m \in ExampleKinds =>
                 calls[k].errors[e].i \in 0..(Len(calls[k].doc.examples.a) - 1)

(***************************************************************************)
(* C10: when the document has an id (a non-empty string), validateFile     *)
(* returns that value as the identifier, whatever else is wrong with the   *)
(* file, and the file's name is appended under it in idMap.                *)
(***************************************************************************)
HasId(doc) == doc.top = "object" /\ doc.id.t = "string" /\ doc.id.s # <<>>

UnderId(file, id) ==
  \E k \in DOMAIN idMap :
     /\ idMap[k].id = id
     /\ \E j \in DOMAIN idMap[k].filenames : idMap[k].filenames[j] = file

C10_IdAlwaysExtracted ==
  \A k \in DOMAIN calls :
     HasId(calls[k].doc) =>
        /\ Returned(calls[k])
        /\ calls[k].id = [t |-> "string", s |-> calls[k].doc.id.s]
        /\ UnderId(calls[k].file, calls[k].doc.id.s)

\* The same statement for the calls that returned.
C10_WhenTheCallReturns ==
  \A k \in DOMAIN calls :
     (HasId(calls[k].doc) /\ Returned(calls[k])) =>
        /\ calls[k].id = [t |-> "string", s |-> calls[k].doc.id.s]
        /\ UnderId(calls[k].file, calls[k].doc.id.s)

====
